---- MODULE Spec2Model ----
(***************************************************************************)
(* Model of the batch image conversion pipeline of convert-and-upload.js   *)
(* (the concurrent variant, src/convert-and-upload.js lines 377-740) with  *)
(* its configuration (src/config.js), and of the loop body of the          *)
(* sequential variant (lines 1-376), whose convertToWebP resizes.          *)
(*                                                                         *)
(* Strings that the code inspects (file names, paths) are sequences of     *)
(* one-character strings, so that toLowerCase, includes, the extension     *)
(* regular expression and path.parse are computed and not assumed.  A path *)
(* is a sequence of segments.                                              *)
(***************************************************************************)
EXTENDS Integers, Sequences, FiniteSets, TLC

(***************************************************************************)
(* Bounds of the model.                                                    *)
(***************************************************************************)
MaxFiles == 3   \* files present under the input root at program start
MaxPre == 1     \* destination files present at program start
MaxRuns == 2    \* consecutive invocations of the program
MaxTokens == 3  \* pieces a file name of the sequential variant is made of

(***************************************************************************)
(* Characters and strings.                                                 *)
(***************************************************************************)
UpperCase == <<"A","B","C","D","E","F","G","H","I","J","K","L","M",
               "N","O","P","Q","R","S","T","U","V","W","X","Y","Z">>

LowerCase == <<"a","b","c","d","e","f","g","h","i","j","k","l","m",
               "n","o","p","q","r","s","t","u","v","w","x","y","z">>

\* the characters that occur in names, in the order of their character codes
CharOrder == <<" ", "-", ".", "/">> \o UpperCase \o LowerCase

CharCode(c) == CHOOSE i \in 1..Len(CharOrder) : CharOrder[i] = c

toLowerChar(c) ==
    IF \E i \in 1..26 : UpperCase[i] = c
    THEN LowerCase[CHOOSE i \in 1..26 : UpperCase[i] = c]
    ELSE c

\* the string as it is
toLowerCaseNone(s) == s

toLowerCase(s) == [i \in 1..Len(s) |-> toLowerChar(s[i])]

includes(s, sub) ==
    \E i \in 0..(Len(s) - Len(sub)) : SubSeq(s, i + 1, i + Len(sub)) = sub

endsWith(s, suf) ==
    /\ Len(suf) <= Len(s)
    /\ SubSeq(s, Len(s) - Len(suf) + 1, Len(s)) = suf

\* strcmp(a, b) < 0
RECURSIVE StrLess(_, _)
StrLess(a, b) ==
    IF a = <<>> THEN b # <<>>
    ELSE IF b = <<>> THEN FALSE
    ELSE IF Head(a) = Head(b) THEN StrLess(Tail(a), Tail(b))
    ELSE CharCode(Head(a)) < CharCode(Head(b))

(***************************************************************************)
(* path module.                                                            *)
(***************************************************************************)
PathJoin(dir, rel) == dir \o rel

IsPrefix(p, q) == Len(p) <= Len(q) /\ SubSeq(q, 1, Len(p)) = p

\* path.relative(from, to) for a path `to` that lies under `from`
PathRelative(from, to) == SubSeq(to, Len(from) + 1, Len(to))

PathBasename(p) == p[Len(p)]

\* the path as one string, segments separated by "/"
RECURSIVE PathStr(_)
PathStr(p) ==
    IF Len(p) = 0 THEN <<>>
    ELSE IF Len(p) = 1 THEN p[1]
    ELSE p[1] \o <<"/">> \o PathStr(Tail(p))

\* index of the last "." of a base name, 0 when there is none
LastDot(b) ==
    IF \E i \in 1..Len(b) : b[i] = "."
    THEN CHOOSE i \in 1..Len(b) : b[i] = "." /\ \A j \in (i + 1)..Len(b) : b[j] # "."
    ELSE 0

\* path.parse(p).name: the base name without its extension; a dot that is
\* the first character does not start an extension
PathParseName(p) ==
    LET b == PathBasename(p)
        d == LastDot(b)
    IN  IF d > 1 THEN SubSeq(b, 1, d - 1) ELSE b

(***************************************************************************)
(* Configuration (config.js).                                              *)
(***************************************************************************)
inputFolder == <<<<"i","n","p","u","t","-","i","m","a","g","e","s">>>>

outputFolders ==
    [cover |-> <<<<"c","o","v","e","r","s">>>>,
     banner |-> <<<<"b","a","n","n","e","r","s">>>>,
     screenshot |-> <<<<"s","c","r","e","e","n","s","h","o","t","s">>>>]

githubUsername == "yourusername"

repoName == "gamestory-assets"

branch == "main"

defaultQuality == 80

maxAspectRatio == 3

FolderTypes == {"cover", "banner", "screenshot"}

(***************************************************************************)
(* The files the input tree is drawn from.  size is the byte size of the   *)
(* source, enc the byte size of its WebP encoding, corrupt says that the   *)
(* codec cannot decode it, locked that the file system refuses to delete   *)
(* it, width and height are its pixel dimensions.                          *)
(***************************************************************************)
SubDir == <<"s","u","b">>

Pool ==
    { [path |-> inputFolder \o <<<<"a",".","p","n","g">>>>,
       size |-> 6, enc |-> 3, corrupt |-> FALSE, locked |-> FALSE,
       width |-> 1600, height |-> 900],
      [path |-> inputFolder \o <<<<"a",".","w","e","b","p">>>>,
       size |-> 3, enc |-> 5, corrupt |-> FALSE, locked |-> FALSE,
       width |-> 400, height |-> 600],
      [path |-> inputFolder \o <<<<"d"," ","s",".","g","i","f">>>>,
       size |-> 7, enc |-> 1, corrupt |-> FALSE, locked |-> TRUE,
       width |-> 700, height |-> 200],
      [path |-> inputFolder \o <<<<"k"," ","b",".","P","N","G">>>>,
       size |-> 5, enc |-> 2, corrupt |-> TRUE, locked |-> FALSE,
       width |-> 1920, height |-> 1080],
      [path |-> inputFolder \o <<<<"n",".","t","x","t">>>>,
       size |-> 1, enc |-> 1, corrupt |-> TRUE, locked |-> FALSE,
       width |-> 1, height |-> 1],
      [path |-> inputFolder \o <<SubDir, <<"a",".","p","n","g">>>>,
       size |-> 8, enc |-> 4, corrupt |-> FALSE, locked |-> FALSE,
       width |-> 600, height |-> 900],
      [path |-> inputFolder \o <<SubDir, <<"c"," ","s",".","b","m","p">>>>,
       size |-> 9, enc |-> 6, corrupt |-> FALSE, locked |-> FALSE,
       width |-> 3840, height |-> 2160] }

PoolPaths == {f.path : f \in Pool}

FileAt(p) == CHOOSE f \in Pool : f.path = p

(***************************************************************************)
(* File name tests of processImages.                                       *)
(***************************************************************************)
ImageExtensions ==
    { <<"j","p","g">>, <<"j","p","e","g">>, <<"p","n","g">>, <<"g","i","f">>, <<"b","m","p">>, <<"w","e","b","p">> }

\* /\.(jpg|jpeg|png|gif|bmp|webp)$/i.test(file)
IsImageFile(file) ==
    LET lower == toLowerCase(PathStr(file))
    IN  \E e \in ImageExtensions : endsWith(lower, <<".">> \o e)

\* /\.webp$/i.test(file)
IsWebPFile(file) == endsWith(toLowerCase(PathStr(file)), <<".","w","e","b","p">>)

\* the chain with the test for screenshots ahead of the test for banners
FolderTypeOfScreenshotFirst(file) ==
    LET lower == toLowerCase(PathStr(file))
    IN  IF \/ includes(lower, <<"s","c","r","e","e","n","s","h","o","t">>)
           \/ includes(lower, <<"s","c","r","e","e","n">>)
           \/ includes(lower, <<" ","s">>)
        THEN "screenshot"
        ELSE IF includes(lower, <<"b","a","n","n","e","r">>) \/ includes(lower, <<" ","b",".">>)
        THEN "banner"
        ELSE "cover"

\* the bucket chosen by the if / else-if chain of the map callback
FolderTypeOf(file) ==
    LET lower == toLowerCase(PathStr(file))
    IN  IF includes(lower, <<"b","a","n","n","e","r">>) \/ includes(lower, <<" ","b",".">>)
        THEN "banner"
        ELSE IF \/ includes(lower, <<"s","c","r","e","e","n","s","h","o","t">>)
                \/ includes(lower, <<"s","c","r","e","e","n">>)
                \/ includes(lower, <<" ","s">>)
        THEN "screenshot"
        ELSE IF includes(lower, <<"c","o","v","e","r">>) \/ includes(lower, <<" ","c",".">>)
        THEN "cover"
        ELSE "cover"

WebPName(file) == PathParseName(file) \o <<".","w","e","b","p">>

InputPathOf(file) == PathJoin(inputFolder, file)

OutputPathOf(file) == PathJoin(outputFolders[FolderTypeOf(file)], <<WebPName(file)>>)

\* the constants of one call of the map callback
LocalsOf(file) ==
    [inputPath |-> InputPathOf(file),
     outputPath |-> OutputPathOf(file),
     folderType |-> FolderTypeOf(file),
     nameWithoutExt |-> PathParseName(file)]

(***************************************************************************)
(* State.                                                                  *)
(***************************************************************************)
VARIABLES
    src,                \* file system: paths of the files under the input root
    dst,                \* file system: output files, path -> [size, from, width,
                        \* height, quality]: the byte size, the source it was
                        \* made from, the pixel dimensions and the quality it
                        \* was encoded with by this program (0: not encoded by it)
    dirs,               \* file system: the configured folders that exist
    logFile,            \* file system: the log file exists
    argv,               \* process.argv
    run,                \* number of the current invocation of the program
    pc,                 \* position of the main line of the program
    imageFiles,         \* processImages: the files to process
    quality,            \* processImages: the encoding quality
    next,               \* index of the next file the map callback is called on
    tpc,                \* position of each call of the map callback
    locals,             \* inputPath, outputPath, folderType and nameWithoutExt
                        \* of each call of the map callback
    result,             \* the converter's result in each call of the callback
    totalOriginalSize,
    totalConvertedSize,
    successCount,
    newUrls,
    errors,
    barTicks,           \* number of calls of bar.tick()
    out,                \* kinds of status lines written in this run
    failedReport,       \* the lines written under FAILED OPERATIONS
    totalCompressionRatio,  \* the percentage of the summary, in tenths of a
                        \* percent: <<>> as long as none has been computed
    savedLine,          \* the percentage of the "Saved:" line of each call,
                        \* in tenths of a percent: <<>> as long as none is written
    gitCommands,        \* the git commands executed with --git
    logStreamEnded,     \* logStream.end() has been called
    rootMissing,        \* history: the input root was missing at program start
    dstAtStart,         \* history: dst at the start of this run
    srcAtStart,         \* history: src at the start of this run
    writers,            \* history: <<call, path>>, the call wrote the output path
    calls,              \* history: <<call, converter>>, the converters invoked
    removed,            \* history: <<call, path>>, the call deleted the source
    seqPc,              \* sequential variant: position in the body of the loop
    fileName,           \* sequential variant: the file of the iteration
    bucket,             \* the folderType the chain of lines 538-549 gives the file
    imageType,          \* sequential variant: folderType, passed to convertToWebP
    metadata,           \* sequential variant: width and height of the image
    resizing            \* sequential variant: the target box, the options of
                        \* resize and the dimensions of the written image

fsVars == <<src, dst, dirs, logFile>>

sumVars == <<totalOriginalSize, totalConvertedSize, successCount, newUrls, errors,
             barTicks>>

histVars == <<rootMissing, dstAtStart, srcAtStart, writers, calls, removed>>

\* the variables of the concurrent variant
conVars == <<src, dst, dirs, logFile, argv, run, pc, imageFiles, quality, next, tpc,
             locals, result, totalOriginalSize, totalConvertedSize, successCount,
             newUrls, errors, barTicks, out, failedReport, totalCompressionRatio,
             savedLine, gitCommands, logStreamEnded, rootMissing, dstAtStart,
             srcAtStart, writers, calls, removed>>

seqVars == <<seqPc, fileName, bucket, imageType, metadata, resizing>>

vars == <<src, dst, dirs, logFile, argv, run, pc, imageFiles, quality, next, tpc,
          locals, result, totalOriginalSize, totalConvertedSize, successCount, newUrls,
          errors, barTicks, out, failedReport, totalCompressionRatio, savedLine,
          gitCommands, logStreamEnded, rootMissing, dstAtStart, srcAtStart, writers,
          calls, removed, seqPc, fileName, bucket, imageType, metadata, resizing>>

(***************************************************************************)
(* Command lines.                                                          *)
(***************************************************************************)
Node == <<"node", "convert-and-upload.js">>

ArgvPool ==
    { Node \o <<"convert">>,
      Node \o <<"convert", "--clean">>,
      Node \o <<"convert", "--no-recompress">>,
      Node \o <<"convert", "--quality", "50", "--clean", "--no-recompress">>,
      Node \o <<"convert", "50", "--git">>,
      Node \o <<"urls">>,
      Node \o <<"recent">>,
      Node \o <<"help">> }

\* process.argv[i]; undefined is the empty string
Argv(i) == IF i + 1 <= Len(argv) THEN argv[i + 1] ELSE ""

\* process.argv.includes(flag)
ArgvIncludes(flag) == \E i \in 1..Len(argv) : argv[i] = flag

NaN == -1

\* parseInt of a command line word: the number a word of digits denotes,
\* NaN for a word that does not start with a digit
parseInt(word) ==
    CASE word = "50" -> 50
      [] word = "0" -> 0
      [] OTHER -> NaN

\* parseInt(process.argv[3]) || config.defaultQuality
QualityOf(word) ==
    IF parseInt(word) = NaN \/ parseInt(word) = 0 THEN defaultQuality ELSE parseInt(word)

(***************************************************************************)
(* File system reads.                                                      *)
(***************************************************************************)
AllOutputFolders == {outputFolders[t] : t \in FolderTypes}

\* the existence check always answers no
existsDstNever(p) == FALSE

existsDst(p) == p \in DOMAIN dst

existsSrc(p) == p \in src

\* the path is a directory of the input tree
isDirectory(p) ==
    \/ p = inputFolder /\ inputFolder \in dirs
    \/ \E f \in src : IsPrefix(p, f) /\ Len(p) < Len(f)

RECURSIVE SetToSeq(_)
SetToSeq(S) ==
    IF S = {} THEN <<>>
    ELSE LET x == CHOOSE x \in S : TRUE IN <<x>> \o SetToSeq(S \ {x})

\* the names of the entries of dir in the set of files, sorted by strcmp
SortedEntries(files, dir) ==
    LET names == {f[Len(dir) + 1] : f \in {g \in files : IsPrefix(dir, g) /\ Len(dir) < Len(g)}}
    IN  SortSeq(SetToSeq(names), StrLess)

\* fs.readdirSync(dir), in the order uv_fs_scandir returns the entries
readdirSync(dir) == SortedEntries(src, dir)

RECURSIVE getAllFiles(_), getAllFilesFrom(_, _)
\* the flatMap of getAllFiles over the entries of dir from the given one on
getAllFilesFrom(dir, items) ==
    IF items = <<>> THEN <<>>
    ELSE LET baseDir == dir
             fullPath == PathJoin(dir, <<Head(items)>>)
             relativePath == PathRelative(baseDir, fullPath)
         IN  (IF isDirectory(fullPath) THEN getAllFiles(fullPath) ELSE <<relativePath>>)
             \o getAllFilesFrom(dir, Tail(items))

getAllFiles(dir) == getAllFilesFrom(dir, readdirSync(dir))

\* the filter keeps every file
SelectImagesAll(files) == files

SelectImages(files) == SelectSeq(files, IsImageFile)

(***************************************************************************)
(* Initial states: the file system and the command line at the first       *)
(* invocation.                                                             *)
(***************************************************************************)
\* the output paths that files of the pool are meant to be written to
PoolDests == {OutputPathOf(PathRelative(inputFolder, p)) : p \in {q \in PoolPaths : IsImageFile(q)}}

OldContent == [size |-> 1, from |-> <<>>, width |-> 1, height |-> 1, quality |-> 0]

NoResult == [kind |-> "none"]

NoLocals == [inputPath |-> <<>>, outputPath |-> <<>>, folderType |-> "",
             nameWithoutExt |-> <<>>]

NoMetadata == [width |-> 0, height |-> 0]

NoResizing ==
    [targetWidth |-> 0, targetHeight |-> 0, targetRatio |-> [num |-> 0, den |-> 1],
     fit |-> "", position |-> "", withoutEnlargement |-> FALSE,
     width |-> 0, height |-> 0]

\* the sequential variant is not run
SeqIdle ==
    /\ seqPc = "idle"
    /\ fileName = <<>>
    /\ bucket = ""
    /\ imageType = ""
    /\ metadata = NoMetadata
    /\ resizing = NoResizing

Init ==
    /\ src \in {t \in SUBSET PoolPaths : Cardinality(t) <= MaxFiles}
    /\ \E pre \in {d \in SUBSET PoolDests : Cardinality(d) <= MaxPre} :
          dst = [p \in pre |-> OldContent]
    /\ dirs \in {d \in SUBSET ({inputFolder} \cup AllOutputFolders) :
                     d \cap AllOutputFolders \in {{}, AllOutputFolders}}
    /\ src # {} => inputFolder \in dirs
    /\ \A p \in DOMAIN dst : <<p[1]>> \in dirs
    /\ logFile \in BOOLEAN
    /\ argv \in ArgvPool
    /\ run = 1
    /\ pc = "load"
    /\ imageFiles = <<>>
    /\ quality = defaultQuality
    /\ next = 1
    /\ tpc = <<>>
    /\ locals = <<>>
    /\ result = <<>>
    /\ totalOriginalSize = 0
    /\ totalConvertedSize = 0
    /\ successCount = 0
    /\ newUrls = <<>>
    /\ errors = <<>>
    /\ barTicks = 0
    /\ out = {}
    /\ failedReport = <<>>
    /\ totalCompressionRatio = <<>>
    /\ savedLine = <<>>
    /\ gitCommands = <<>>
    /\ logStreamEnded = FALSE
    /\ rootMissing = FALSE
    /\ dstAtStart = dst
    /\ srcAtStart = src
    /\ writers = {}
    /\ calls = {}
    /\ removed = {}
    /\ SeqIdle

(***************************************************************************)
(* Module initialisation: the folders and the log stream.                  *)
(***************************************************************************)
Load ==
    /\ pc = "load"
    /\ dirs' = dirs \cup {inputFolder} \cup AllOutputFolders
    /\ out' = IF inputFolder \notin dirs THEN out \cup {"created-input-folder"} ELSE out
    /\ logFile' = TRUE
    /\ logStreamEnded' = FALSE
    /\ rootMissing' = (inputFolder \notin dirs)
    /\ pc' = "main"
    /\ UNCHANGED <<src, dst, argv, run, imageFiles, quality, next, tpc, locals,
                   result, failedReport, totalCompressionRatio, savedLine,
                   gitCommands, dstAtStart, srcAtStart, writers, calls, removed>>
    /\ UNCHANGED sumVars
    /\ UNCHANGED seqVars

(***************************************************************************)
(* main, command convert: processImages up to the call of map.  A return   *)
(* of processImages is followed by logStream.end() in main.                *)
(***************************************************************************)
MainConvert ==
    /\ pc = "main"
    /\ Argv(2) = "convert"
    /\ IF inputFolder \notin dirs
       THEN /\ out' = out \cup {"folder-not-found"}
            /\ logStreamEnded' = TRUE
            /\ pc' = "exit"
            /\ UNCHANGED <<imageFiles, quality, tpc, locals, result, savedLine>>
       ELSE LET allFiles == getAllFiles(inputFolder)
                found == SelectImages(allFiles)
            IN  IF Len(found) = 0
                THEN /\ out' = out \cup {"no-images"}
                     /\ logStreamEnded' = TRUE
                     /\ pc' = "exit"
                     /\ UNCHANGED <<imageFiles, quality, tpc, locals, result, savedLine>>
                ELSE /\ out' = out \cup {"found"}
                     /\ imageFiles' = found
                     /\ quality' = QualityOf(Argv(3))
                     /\ tpc' = [i \in 1..Len(found) |-> "new"]
                     /\ locals' = [i \in 1..Len(found) |-> NoLocals]
                     /\ result' = [i \in 1..Len(found) |-> NoResult]
                     /\ savedLine' = [i \in 1..Len(found) |-> <<>>]
                     /\ pc' = "dispatch"
                     /\ UNCHANGED logStreamEnded
    /\ next' = 1
    /\ totalOriginalSize' = 0
    /\ totalConvertedSize' = 0
    /\ successCount' = 0
    /\ newUrls' = <<>>
    /\ errors' = <<>>
    /\ barTicks' = 0
    /\ UNCHANGED <<argv, run, failedReport, totalCompressionRatio, gitCommands>>
    /\ UNCHANGED fsVars
    /\ UNCHANGED histVars
    /\ UNCHANGED seqVars

(***************************************************************************)
(* Numbers.  A percentage is held in tenths of a percent.                  *)
(***************************************************************************)
\* (num / den * 100).toFixed(1): the sign is set aside and the magnitude
\* goes to the nearest tenth, the larger one of two nearest.  Two tenths
\* are equally near only when 16 divides den, and for den = 16 the
\* quotient and its product with 100 are exact in double precision.
toFixed1(num, den) ==
    LET a == IF num < 0 THEN -num ELSE num
        n == (2000 * a + den) \div (2 * den)
    IN  IF num < 0 THEN -n ELSE n

(***************************************************************************)
(* The converters' results.                                                *)
(***************************************************************************)
\* ((originalSize - convertedSize) / originalSize * 100).toFixed(1)
compressionRatio(originalSize, convertedSize) ==
    toFixed1(originalSize - convertedSize, originalSize)

NullResult == [kind |-> "null"]

Pending(originalSize) == [kind |-> "pending", originalSize |-> originalSize]

\* the saved space is not allowed to be negative
OkResultClamped(originalSize, convertedSize, inputPath) ==
    [kind |-> "ok", originalSize |-> originalSize, convertedSize |-> convertedSize,
     savedSpace |-> IF originalSize > convertedSize THEN originalSize - convertedSize ELSE 0,
     inputPath |-> inputPath]

OkResult(originalSize, convertedSize, inputPath) ==
    [kind |-> "ok", originalSize |-> originalSize, convertedSize |-> convertedSize,
     savedSpace |-> originalSize - convertedSize, inputPath |-> inputPath]

CopyResult(fileSize, inputPath) ==
    [kind |-> "ok", originalSize |-> fileSize, convertedSize |-> fileSize,
     savedSpace |-> 0, inputPath |-> inputPath]

ErrorResult(message, inputPath) ==
    [kind |-> "error", error |-> message, inputPath |-> inputPath]

\* fs.copyFileSync(inputPath, outputPath): the bytes of the source
Copied(f) ==
    [size |-> f.size, from |-> f.path, width |-> f.width, height |-> f.height,
     quality |-> 0]

\* sharp(inputPath).webp({ quality }).toFile(outputPath): the image of the
\* source in its own dimensions, encoded at the given quality
Encoded(f, q) ==
    [size |-> f.enc, from |-> f.path, width |-> f.width, height |-> f.height,
     quality |-> q]

WriteFile(fs, p, content) == [q \in (DOMAIN fs) \cup {p} |-> IF q = p THEN content ELSE fs[q]]

\* the choice without the test of --no-recompress
ConverterOfAnyFlag(file) ==
    IF IsWebPFile(file) THEN "recompress" ELSE "convert"

\* which converter the map callback calls for the file
ConverterOf(file) ==
    IF IsWebPFile(file)
    THEN IF ArgvIncludes("--no-recompress") THEN "copy" ELSE "recompress"
    ELSE "convert"

\* aspectRatio > config.maxAspectRatio || aspectRatio < 1 / config.maxAspectRatio
UnusualAspect(f) ==
    \/ f.width > maxAspectRatio * f.height
    \/ f.width * maxAspectRatio < f.height

\* the status line of a converter that failed, and of one that succeeded
FailedLine(op) ==
    CASE op = "convert" -> "failed-to-convert"
      [] op = "recompress" -> "failed-to-recompress"
      [] op = "copy" -> "failed-to-copy"

DoneLine(op) ==
    CASE op = "convert" -> "converted"
      [] op = "recompress" -> "recompressed"
      [] op = "copy" -> "copied"

\* the characters of the names of the buckets
FolderTypeChars ==
    [cover |-> <<"c","o","v","e","r">>,
     banner |-> <<"b","a","n","n","e","r">>,
     screenshot |-> <<"s","c","r","e","e","n","s","h","o","t">>]

\* the URL with the name of the output folder in the place of the bucket
CdnUrlOfFolder(folderType, filename) ==
    <<"https://cdn.jsdelivr.net/gh/", githubUsername, "/", repoName, "@", branch, "/">>
        \o outputFolders[folderType][1] \o <<"/">> \o filename

\* the template literal of the url: the string is the concatenation of the
\* pieces, the bucket and the file name character by character
CdnUrl(folderType, filename) ==
    <<"https://cdn.jsdelivr.net/gh/", githubUsername, "/", repoName, "@", branch, "/">>
        \o FolderTypeChars[folderType] \o <<"/">> \o filename

(***************************************************************************)
(* The map callback after the converter has returned r (bar.tick() and the *)
(* accounting of the result); logged are the status lines of the converter.*)
(* A throw of fs.unlinkSync rejects the promise of the call.               *)
(***************************************************************************)
\* the update of a total written from a stale read
AddToStale(total, amount) == amount

\* total += amount
AddTo(total, amount) == total + amount

Account(i, r, logged) ==
    LET inputPath == locals[i].inputPath
        filename == locals[i].nameWithoutExt \o <<".","w","e","b","p">>
    IN  /\ barTicks' = barTicks + 1
        /\ result' = [result EXCEPT ![i] = r]
        /\ IF r.kind = "ok"
           THEN /\ totalOriginalSize' = AddTo(totalOriginalSize, r.originalSize)
                /\ totalConvertedSize' = AddTo(totalConvertedSize, r.convertedSize)
                /\ successCount' = successCount + 1
                /\ newUrls' = Append(newUrls,
                                 [filename |-> filename,
                                  folder |-> locals[i].folderType,
                                  url |-> CdnUrl(locals[i].folderType, filename)])
                /\ errors' = errors
                /\ IF ArgvIncludes("--clean")
                   THEN IF existsSrc(inputPath) /\ ~FileAt(inputPath).locked
                        THEN /\ src' = src \ {inputPath}
                             /\ removed' = removed \cup {<<i, inputPath>>}
                             /\ out' = out \cup logged \cup {"deleted"}
                             /\ tpc' = [tpc EXCEPT ![i] = "done"]
                        ELSE /\ tpc' = [tpc EXCEPT ![i] = "rejected"]
                             /\ out' = out \cup logged
                             /\ UNCHANGED <<src, removed>>
                   ELSE /\ tpc' = [tpc EXCEPT ![i] = "done"]
                        /\ out' = out \cup logged
                        /\ UNCHANGED <<src, removed>>
           ELSE /\ errors' = Append(errors,
                                [file |-> PathBasename(r.inputPath), error |-> r.error])
                /\ tpc' = [tpc EXCEPT ![i] = "done"]
                /\ out' = out \cup logged
                /\ UNCHANGED <<totalOriginalSize, totalConvertedSize, successCount,
                               newUrls, src, removed>>

(***************************************************************************)
(* One call of the map callback up to its first await: the callbacks run   *)
(* one after the other, in the order of imageFiles, before any of them is  *)
(* resumed.                                                                *)
(***************************************************************************)
Dispatch ==
    /\ pc = "dispatch"
    /\ LET i == next
           file == imageFiles[i]
           inputPath == InputPathOf(file)
           outputPath == OutputPathOf(file)
           op == ConverterOf(file)
       IN  /\ locals' = [locals EXCEPT ![i] = LocalsOf(file)]
           /\ IF existsDst(outputPath)
              THEN /\ out' = out \cup {"skipping"}
                   /\ barTicks' = barTicks + 1
                   /\ tpc' = [tpc EXCEPT ![i] = "done"]
                   /\ result' = [result EXCEPT ![i] = NullResult]
                   /\ UNCHANGED <<dst, writers, calls>>
              ELSE /\ calls' = calls \cup {<<i, op>>}
                   /\ UNCHANGED barTicks
                   /\ IF ~existsSrc(inputPath)
                      THEN \* statSync or copyFileSync throws
                           /\ out' = out \cup {FailedLine(op)}
                           /\ result' = [result EXCEPT ![i] = ErrorResult("ENOENT", inputPath)]
                           /\ tpc' = [tpc EXCEPT ![i] = "ret"]
                           /\ UNCHANGED <<dst, writers>>
                      ELSE IF op = "copy"
                      THEN /\ dst' = WriteFile(dst, outputPath, Copied(FileAt(inputPath)))
                           /\ writers' = writers \cup {<<i, outputPath>>}
                           /\ out' = out \cup {DoneLine(op)}
                           /\ result' = [result EXCEPT ![i] =
                                            CopyResult(FileAt(inputPath).size, inputPath)]
                           /\ tpc' = [tpc EXCEPT ![i] = "ret"]
                      ELSE /\ result' = [result EXCEPT ![i] = Pending(FileAt(inputPath).size)]
                           /\ tpc' = [tpc EXCEPT ![i] = "meta"]
                           /\ UNCHANGED <<dst, writers, out>>
    /\ next' = next + 1
    /\ pc' = IF next = Len(imageFiles) THEN "await" ELSE "dispatch"
    /\ UNCHANGED <<src, dirs, logFile, argv, run, imageFiles, quality,
                   totalOriginalSize, totalConvertedSize, successCount, newUrls,
                   errors, failedReport, totalCompressionRatio, savedLine,
                   gitCommands, logStreamEnded, rootMissing, dstAtStart, srcAtStart,
                   removed>>
    /\ UNCHANGED seqVars

(***************************************************************************)
(* Resumption of the calls.  A call whose converter returned without       *)
(* waiting for the codec is resumed by a microtask: these run in the order *)
(* of the calls and before any completion of the codec is delivered.       *)
(***************************************************************************)
MicrotaskPending == \E i \in DOMAIN tpc : tpc[i] = "ret"

Unhandled == pc = "await" /\ \E i \in DOMAIN tpc : tpc[i] = "rejected"

Running == pc \in {"await", "exit"}

CodecVars == <<dirs, logFile, argv, run, pc, imageFiles, quality, next, locals,
               failedReport, totalCompressionRatio, gitCommands, logStreamEnded, rootMissing, dstAtStart,
               srcAtStart>>

Continue(i) ==
    /\ pc = "await"
    /\ tpc[i] = "ret"
    /\ \A j \in 1..(i - 1) : tpc[j] # "ret"
    /\ Account(i, result[i], {})
    /\ UNCHANGED <<dst, writers, calls, savedLine>>
    /\ UNCHANGED CodecVars
    /\ UNCHANGED seqVars

\* sharp(inputPath).metadata() has settled
Metadata(i) ==
    /\ Running
    /\ ~MicrotaskPending /\ ~Unhandled
    /\ tpc[i] = "meta"
    /\ LET inputPath == locals[i].inputPath
           op == ConverterOf(imageFiles[i])
       IN  IF ~existsSrc(inputPath)
           THEN Account(i, ErrorResult("ENOENT", inputPath), {FailedLine(op)})
           ELSE IF FileAt(inputPath).corrupt
           THEN Account(i, ErrorResult("unsupported image format", inputPath),
                        {FailedLine(op)})
           ELSE /\ tpc' = [tpc EXCEPT ![i] = "encode"]
                /\ out' = IF UnusualAspect(FileAt(inputPath))
                          THEN out \cup {"unusual-aspect-ratio"} ELSE out
                /\ UNCHANGED <<src, result, removed>>
                /\ UNCHANGED sumVars
    /\ UNCHANGED <<dst, writers, calls, savedLine>>
    /\ UNCHANGED CodecVars
    /\ UNCHANGED seqVars

\* sharp(inputPath).webp({ quality }).toFile(outputPath) runs in the thread
\* pool: it writes the output file, or rejects when the source has gone
Encode(i) ==
    /\ Running
    /\ ~MicrotaskPending /\ ~Unhandled
    /\ tpc[i] = "encode"
    /\ LET inputPath == locals[i].inputPath
           outputPath == locals[i].outputPath
       IN  IF existsSrc(inputPath)
           THEN /\ dst' = WriteFile(dst, outputPath, Encoded(FileAt(inputPath), quality))
                /\ writers' = writers \cup {<<i, outputPath>>}
                /\ tpc' = [tpc EXCEPT ![i] = "written"]
                /\ UNCHANGED <<src, result, out, removed>>
                /\ UNCHANGED sumVars
           ELSE /\ Account(i, ErrorResult("ENOENT", inputPath),
                           {FailedLine(ConverterOf(imageFiles[i]))})
                /\ UNCHANGED <<dst, writers>>
    /\ UNCHANGED <<calls, savedLine>>
    /\ UNCHANGED CodecVars
    /\ UNCHANGED seqVars

\* toFile has resolved: statSync(outputPath), the status lines, the return
EncodeDone(i) ==
    /\ Running
    /\ ~MicrotaskPending /\ ~Unhandled
    /\ tpc[i] = "written"
    /\ LET inputPath == locals[i].inputPath
           outputPath == locals[i].outputPath
           originalSize == result[i].originalSize
           convertedSize == dst[outputPath].size
       IN  /\ savedLine' = [savedLine EXCEPT ![i] =
                                <<compressionRatio(originalSize, convertedSize)>>]
           /\ Account(i, OkResult(originalSize, convertedSize, inputPath),
                      {DoneLine(ConverterOf(imageFiles[i]))})
    /\ UNCHANGED <<dst, writers, calls>>
    /\ UNCHANGED CodecVars
    /\ UNCHANGED seqVars

(***************************************************************************)
(* A rejected call rejects Promise.all, processImages and main: the catch  *)
(* of main reports the error and ends the log stream.  The other calls are *)
(* not cancelled.                                                          *)
(***************************************************************************)
MainCatch ==
    /\ Unhandled
    /\ ~MicrotaskPending
    /\ out' = out \cup {"fatal-error"}
    /\ logStreamEnded' = TRUE
    /\ pc' = "exit"
    /\ UNCHANGED <<argv, run, imageFiles, quality, next, tpc, locals, result,
                   failedReport, totalCompressionRatio, savedLine, gitCommands>>
    /\ UNCHANGED fsVars
    /\ UNCHANGED sumVars
    /\ UNCHANGED histVars
    /\ UNCHANGED seqVars

\* the next step of the call writes a status line
WillLog(i) ==
    LET inputPath == locals[i].inputPath
    IN  \/ tpc[i] = "written"
        \/ tpc[i] = "encode" /\ ~existsSrc(inputPath)
        \/ /\ tpc[i] = "meta"
           /\ \/ ~existsSrc(inputPath)
              \/ FileAt(inputPath).corrupt
              \/ UnusualAspect(FileAt(inputPath))

\* A status line written after logStream.end(): when the stream has not been
\* destroyed yet, the write raises an 'error' event that has no listener and
\* the process dies; otherwise the line is dropped and the call goes on.
Crash ==
    /\ pc = "exit"
    /\ logStreamEnded
    /\ \E i \in DOMAIN tpc : WillLog(i)
    /\ pc' = "crashed"
    /\ UNCHANGED <<argv, run, imageFiles, quality, next, tpc, locals, result, out,
                   failedReport, totalCompressionRatio, savedLine, gitCommands,
                   logStreamEnded>>
    /\ UNCHANGED fsVars
    /\ UNCHANGED sumVars
    /\ UNCHANGED histVars
    /\ UNCHANGED seqVars

(***************************************************************************)
(* Promise.all has resolved: the summary, the git commands, the end of     *)
(* processImages and logStream.end() in main.                              *)
(***************************************************************************)
\* the commands with the push ahead of the commit
GitScriptPushFirst == <<"add", "push", "commit">>

GitScript == <<"add", "commit", "push">>

\* totalSaved > 0 ? ((totalSaved / totalOriginalSize) * 100).toFixed(1) : 0
TotalRatio(totalSaved, totalOriginal) ==
    IF totalSaved > 0 THEN toFixed1(totalSaved, totalOriginal) ELSE 0

Summary ==
    /\ pc = "await"
    /\ \A i \in DOMAIN tpc : tpc[i] = "done"
    /\ IF successCount > 0
       THEN /\ totalCompressionRatio' =
                   <<TotalRatio(totalOriginalSize - totalConvertedSize, totalOriginalSize)>>
            /\ failedReport' = IF Len(errors) > 0 THEN errors ELSE failedReport
            /\ IF ArgvIncludes("--git")
               THEN \E ok \in 0..Len(GitScript) :
                       /\ gitCommands' = SubSeq(GitScript, 1,
                                            IF ok < Len(GitScript) THEN ok + 1 ELSE ok)
                       /\ out' = out \cup {"summary", "complete"}
                                     \cup (IF Len(newUrls) > 0 THEN {"new-urls"} ELSE {})
                                     \cup (IF ok = Len(GitScript)
                                           THEN {"pushed"} ELSE {"failed-to-push"})
               ELSE /\ gitCommands' = gitCommands
                    /\ out' = out \cup {"summary", "complete", "next-steps"}
                                  \cup (IF Len(newUrls) > 0 THEN {"new-urls"} ELSE {})
       ELSE /\ out' = out \cup {"nothing-handled", "complete"}
            /\ UNCHANGED <<failedReport, totalCompressionRatio, gitCommands>>
    /\ logStreamEnded' = TRUE
    /\ pc' = "exit"
    /\ UNCHANGED <<argv, run, imageFiles, quality, next, tpc, locals, result, savedLine>>
    /\ UNCHANGED fsVars
    /\ UNCHANGED sumVars
    /\ UNCHANGED histVars
    /\ UNCHANGED seqVars

(***************************************************************************)
(* main, the other commands.                                               *)
(***************************************************************************)
MainOther ==
    /\ pc = "main"
    /\ Argv(2) # "convert"
    /\ \/ /\ Argv(2) = "urls"
          /\ \E line \in {"failed-to-get-commit", "no-webp-in-commit", "commit-urls"} :
                out' = out \cup {line}
       \/ /\ Argv(2) = "recent"
          /\ out' = out \cup {IF \E p \in DOMAIN dst : endsWith(p[2], <<".","w","e","b","p">>)
                              THEN "all-urls" ELSE "no-webp-files"}
       \/ /\ Argv(2) \notin {"urls", "recent"}
          /\ out' = out \cup {"usage"}
    /\ logStreamEnded' = TRUE
    /\ pc' = "exit"
    /\ UNCHANGED <<argv, run, imageFiles, quality, next, tpc, locals, result,
                   failedReport, totalCompressionRatio, savedLine, gitCommands>>
    /\ UNCHANGED fsVars
    /\ UNCHANGED sumVars
    /\ UNCHANGED histVars
    /\ UNCHANGED seqVars

(***************************************************************************)
(* The process has ended and the program is invoked again with the same    *)
(* command line on the file system as the last invocation left it.         *)
(***************************************************************************)
Ended ==
    \/ pc = "crashed"
    \/ pc = "exit" /\ \A i \in DOMAIN tpc : tpc[i] \in {"done", "rejected"}

Rerun ==
    /\ Ended
    /\ run < MaxRuns
    /\ run' = run + 1
    /\ pc' = "load"
    /\ imageFiles' = <<>>
    /\ quality' = defaultQuality
    /\ next' = 1
    /\ tpc' = <<>>
    /\ locals' = <<>>
    /\ result' = <<>>
    /\ totalOriginalSize' = 0
    /\ totalConvertedSize' = 0
    /\ successCount' = 0
    /\ newUrls' = <<>>
    /\ errors' = <<>>
    /\ barTicks' = 0
    /\ out' = {}
    /\ failedReport' = <<>>
    /\ totalCompressionRatio' = <<>>
    /\ savedLine' = <<>>
    /\ gitCommands' = <<>>
    /\ logStreamEnded' = FALSE
    /\ rootMissing' = FALSE
    /\ dstAtStart' = dst
    /\ srcAtStart' = src
    /\ writers' = {}
    /\ calls' = {}
    /\ removed' = {}
    /\ UNCHANGED <<argv>>
    /\ UNCHANGED fsVars
    /\ UNCHANGED seqVars

Next ==
    \/ Load
    \/ MainConvert
    \/ MainOther
    \/ Dispatch
    \/ \E i \in DOMAIN tpc : Continue(i)
    \/ \E i \in DOMAIN tpc : Metadata(i)
    \/ \E i \in DOMAIN tpc : Encode(i)
    \/ \E i \in DOMAIN tpc : EncodeDone(i)
    \/ MainCatch
    \/ Crash
    \/ Summary
    \/ Rerun

Spec == Init /\ [][Next]_vars

(***************************************************************************)
(* The sequential variant (lines 1-376): the body of the loop of           *)
(* processImages for one file, that is the chain that picks the folder of  *)
(* the file and the resizing of convertToWebP.                             *)
(***************************************************************************)
\* folderType of the sequential variant
ImageTypeOf(file) ==
    LET lower == toLowerCase(PathStr(file))
    IN  IF includes(lower, <<"b","a","n","n","e","r">>) \/ includes(lower, <<" ","b",".">>)
        THEN "banners"
        ELSE IF \/ includes(lower, <<"s","c","r","e","e","n","s","h","o","t">>)
                \/ includes(lower, <<"s","c","r","e","e","n">>)
                \/ includes(lower, <<" ","s">>)
        THEN "screenshots"
        ELSE IF includes(lower, <<"c","o","v","e","r">>) \/ includes(lower, <<" ","c",".">>)
        THEN "covers"
        ELSE "covers"

\* the test of the image type looks for the name of the concurrent variant
TargetBoxSingular(type) ==
    IF type = "cover"
    THEN [targetRatio |-> [num |-> 2, den |-> 3], targetWidth |-> 600, targetHeight |-> 900]
    ELSE [targetRatio |-> [num |-> 16, den |-> 9], targetWidth |-> 1920, targetHeight |-> 1080]

\* targetRatio, targetWidth and targetHeight of convertToWebP
TargetBox(type) ==
    IF type = "covers"
    THEN [targetRatio |-> [num |-> 2, den |-> 3], targetWidth |-> 600, targetHeight |-> 900]
    ELSE [targetRatio |-> [num |-> 16, den |-> 9], targetWidth |-> 1920, targetHeight |-> 1080]

Abs(x) == IF x < 0 THEN -x ELSE x

\* the sign and the size of originalRatio - targetRatio, as the numerator of
\* the difference over the denominator meta.height * ratio.den
RatioDifference(meta, ratio) == meta.width * ratio.den - ratio.num * meta.height

\* Math.abs(originalRatio - targetRatio) > 0.1 in double precision.  When
\* the two ratios are one tenth apart, the difference of the two doubles is
\* 0.10000000000000009 for an image wider than the target and at most
\* 0.09999999999999998 for a narrower one, and the double 0.1 lies between.
SignificantDifference(meta, ratio) ==
    LET d == RatioDifference(meta, ratio)
        scale == meta.height * ratio.den
    IN  \/ 10 * Abs(d) > scale
        \/ 10 * Abs(d) = scale /\ d > 0

\* the options given to resize
ResizeOptions(meta, box) ==
    IF SignificantDifference(meta, box.targetRatio)
    THEN [fit |-> "cover", position |-> "center", withoutEnlargement |-> FALSE]
    ELSE [fit |-> "inside", position |-> "centre", withoutEnlargement |-> FALSE]

\* x / y rounded to the nearest integer
RoundDiv(x, y) == (2 * x + y) \div (2 * y)

\* sharp: the dimensions resize(targetWidth, targetHeight, options) gives an
\* image, for the options the program uses.  cover fills the box exactly
\* and crops what is outside of it; inside keeps the aspect ratio and makes
\* the image as large as the box allows, enlarging it unless
\* withoutEnlargement is set.
SharpResize(meta, box, options) ==
    IF options.fit = "cover"
    THEN [width |-> box.targetWidth, height |-> box.targetHeight]
    ELSE IF /\ options.withoutEnlargement
            /\ meta.width <= box.targetWidth
            /\ meta.height <= box.targetHeight
    THEN [width |-> meta.width, height |-> meta.height]
    ELSE IF meta.width * box.targetHeight >= meta.height * box.targetWidth
    THEN [width |-> box.targetWidth,
          height |-> RoundDiv(meta.height * box.targetWidth, meta.width)]
    ELSE [width |-> RoundDiv(meta.width * box.targetHeight, meta.height),
          height |-> box.targetHeight]

\* the pieces the file names are made of, ahead of the extension
Tokens ==
    { <<"b","a","n","n","e","r">>, <<"B","a","N","N","e","R">>, <<" ","b",".">>,
      <<"s","c","r","e","e","n","s","h","o","t">>, <<"S","c","r","e","e","n">>,
      <<" ","s">>, <<"c","o","v","e","r">>, <<" ","C",".">>, <<"x">>, <<"-">> }

RECURSIVE NamesOf(_)
\* the names made of at most n pieces
NamesOf(n) ==
    IF n = 0 THEN {<<>>}
    ELSE LET shorter == NamesOf(n - 1)
         IN  shorter \cup {a \o t : a \in shorter, t \in Tokens}

\* the files of the input folder that pass the filter of processImages
FileNames ==
    {file \in {<<n \o <<".","p","n","g">>>> : n \in NamesOf(MaxTokens) \ {<<>>}} :
        IsImageFile(file)}

\* the dimensions of the images
Metas ==
    { [width |-> 600, height |-> 900], [width |-> 400, height |-> 600],
      [width |-> 1200, height |-> 1800], [width |-> 620, height |-> 900],
      [width |-> 690, height |-> 900], [width |-> 510, height |-> 900],
      [width |-> 500, height |-> 900], [width |-> 1000, height |-> 1000],
      [width |-> 1920, height |-> 1080], [width |-> 1280, height |-> 720],
      [width |-> 3840, height |-> 2160], [width |-> 1690, height |-> 900],
      [width |-> 1510, height |-> 900], [width |-> 700, height |-> 200] }

InitSequential ==
    /\ seqPc = "classify"
    /\ fileName \in FileNames
    /\ bucket = ""
    /\ imageType = ""
    /\ metadata = NoMetadata
    /\ resizing = NoResizing
    /\ src = {}
    /\ dst = <<>>
    /\ dirs = {}
    /\ logFile = FALSE
    /\ argv = Node
    /\ run = 1
    /\ pc = "idle"
    /\ imageFiles = <<>>
    /\ quality = defaultQuality
    /\ next = 1
    /\ tpc = <<>>
    /\ locals = <<>>
    /\ result = <<>>
    /\ totalOriginalSize = 0
    /\ totalConvertedSize = 0
    /\ successCount = 0
    /\ newUrls = <<>>
    /\ errors = <<>>
    /\ barTicks = 0
    /\ out = {}
    /\ failedReport = <<>>
    /\ totalCompressionRatio = <<>>
    /\ savedLine = <<>>
    /\ gitCommands = <<>>
    /\ logStreamEnded = FALSE
    /\ rootMissing = FALSE
    /\ dstAtStart = <<>>
    /\ srcAtStart = {}
    /\ writers = {}
    /\ calls = {}
    /\ removed = {}

\* the chain that picks the folder of the file
Classify ==
    /\ seqPc = "classify"
    /\ imageType' = ImageTypeOf(fileName)
    /\ bucket' = FolderTypeOf(fileName)
    /\ seqPc' = "convert"
    /\ UNCHANGED <<fileName, metadata, resizing>>
    /\ UNCHANGED conVars

\* convertToWebP(inputPath, outputPath, folderType) on an image of the given
\* dimensions, or on a file the codec cannot read
Resize ==
    /\ seqPc = "convert"
    /\ \/ \E meta \in Metas :
             LET box == TargetBox(imageType)
                 options == ResizeOptions(meta, box)
                 written == SharpResize(meta, box, options)
             IN  /\ metadata' = meta
                 /\ resizing' = [targetWidth |-> box.targetWidth,
                                 targetHeight |-> box.targetHeight,
                                 targetRatio |-> box.targetRatio,
                                 fit |-> options.fit,
                                 position |-> options.position,
                                 withoutEnlargement |-> options.withoutEnlargement,
                                 width |-> written.width,
                                 height |-> written.height]
                 /\ seqPc' = "converted"
       \/ /\ seqPc' = "failed"
          /\ UNCHANGED <<metadata, resizing>>
    /\ UNCHANGED <<fileName, bucket, imageType>>
    /\ UNCHANGED conVars

NextSequential ==
    \/ Classify
    \/ Resize

SpecSequential == InitSequential /\ [][NextSequential]_vars

(***************************************************************************)
(* Notions the properties are stated with.                                 *)
(***************************************************************************)
Calls == DOMAIN tpc

Converting == Argv(2) = "convert"

AllFinished == pc \in {"await", "exit"} /\ \A i \in Calls : tpc[i] \in {"done", "rejected"}

\* the image files under the input root at the start of the run
Eligible == {s \in srcAtStart : IsImageFile(s)}

\* the output path of a source, from its path relative to the input root
DestOfSource(s) == OutputPathOf(PathRelative(inputFolder, s))

RECURSIVE Walk(_, _), WalkFrom(_, _, _)
\* the paths of the files under dir, in the order getAllFiles visits them
WalkFrom(files, dir, items) ==
    IF items = <<>> THEN <<>>
    ELSE LET fullPath == PathJoin(dir, <<Head(items)>>)
         IN  (IF fullPath \in files THEN <<fullPath>> ELSE Walk(files, fullPath))
             \o WalkFrom(files, dir, Tail(items))

Walk(files, dir) == WalkFrom(files, dir, SortedEntries(files, dir))

\* the file that the i-th call of the map callback was made for
SourceOf(i) == SelectSeq(Walk(srcAtStart, inputFolder), IsImageFile)[i]

Dispatched == {i \in Calls : tpc[i] # "new"}

WritersOf(p) == {i \in Calls : <<i, p>> \in writers}

OkCalls == {i \in Calls : tpc[i] \in {"done", "rejected"} /\ result[i].kind = "ok"}

ErrorCalls == {i \in Calls : tpc[i] \in {"done", "rejected"} /\ result[i].kind = "error"}

SkippedCalls == {i \in Calls : result[i].kind = "null"}

RECURSIVE SumOver(_, _)
SumOver(S, f) ==
    IF S = {} THEN 0
    ELSE LET x == CHOOSE x \in S : TRUE IN f[x] + SumOver(S \ {x}, f)

ErrorEntry(i) == [file |-> PathBasename(result[i].inputPath), error |-> result[i].error]

(***************************************************************************)
(* Properties.                                                             *)
(***************************************************************************)

\* C1: in one run every destination path is written by at most one call of
\* the map callback, also when several sources map to the same destination.
WrittenAtMostOnce == \A p \in DOMAIN dst : Cardinality(WritersOf(p)) <= 1

\* C2: a destination that exists when the run starts is left as it is, and
\* every source mapped to it is skipped: no converter is invoked for it, it
\* is not counted, no URL is recorded for it and it is not deleted.
ExistingDestinationSkipped ==
    \A p \in DOMAIN dstAtStart :
        /\ p \in DOMAIN dst
        /\ dst[p] = dstAtStart[p]
        /\ WritersOf(p) = {}
        /\ \A s \in srcAtStart \ src : IsImageFile(s) => DestOfSource(s) # p
        /\ \A i \in Dispatched :
              locals[i].outputPath = p =>
                 /\ \A op \in {"convert", "recompress", "copy"} : <<i, op>> \notin calls
                 /\ result[i] = NullResult
                 /\ tpc[i] = "done"
                 /\ \A q \in srcAtStart : <<i, q>> \notin removed
                 /\ locals[i].inputPath \in srcAtStart => locals[i].inputPath \in src
        /\ \A k \in 1..Len(newUrls) :
              PathJoin(outputFolders[newUrls[k].folder], <<newUrls[k].filename>>) # p
        /\ successCount <= Cardinality({i \in Dispatched :
                                           locals[i].outputPath \notin DOMAIN dstAtStart})

ExistingDestinationSkippedWitness ==
    /\ pc = "exit"
    /\ ArgvIncludes("--clean")
    /\ successCount > 0
    /\ \E i \in Calls :
          /\ locals[i].outputPath \in DOMAIN dstAtStart
          /\ result[i] = NullResult
          /\ locals[i].inputPath \in src

\* C3: a second run on the input directory the first run left (no --clean)
\* writes no destination and has a success count of zero.
SecondRunConvertsNothing ==
    (run > 1 /\ Converting /\ ~ArgvIncludes("--clean"))
        => (successCount = 0 /\ writers = {} /\ dst = dstAtStart)

SecondRunConvertsNothingWitness ==
    /\ run = 2
    /\ pc = "exit"
    /\ Converting /\ ~ArgvIncludes("--clean")
    /\ "nothing-handled" \in out
    /\ \E p \in DOMAIN dstAtStart : dstAtStart[p].from # <<>>
    /\ calls # {}

\* C4: a batch of N eligible sources with distinct destinations, none of
\* which exists, of which exactly one is corrupt, ends with the final
\* summary, N - 1 successes and exactly one recorded error.
PartialFailure ==
    (/\ Converting /\ ~ArgvIncludes("--clean")
     /\ pc = "exit"
     /\ \A s, t \in Eligible : DestOfSource(s) = DestOfSource(t) => s = t
     /\ \A s \in Eligible : DestOfSource(s) \notin DOMAIN dstAtStart
     /\ Cardinality({s \in Eligible : FileAt(s).corrupt}) = 1)
        => (/\ "complete" \in out
            /\ successCount = Cardinality(Eligible) - 1
            /\ Len(errors) = 1)

\* C5: no failure raised while one file is processed rejects the batch or
\* keeps the final summary from being produced or stops the other calls.
FailuresStayInTheirCall ==
    (/\ Converting
     /\ \A s \in srcAtStart : Len(s) = Len(inputFolder) + 1
     /\ imageFiles # <<>>)
        => (/\ \A i \in Calls : tpc[i] # "rejected"
            /\ "fatal-error" \notin out
            /\ pc # "crashed"
            /\ Ended => "complete" \in out)

\* C6: every recorded error is among the lines written at the end of the
\* run, also when no file succeeded.
ErrorsReportedAtEnd ==
    (Converting /\ pc = "exit" /\ "complete" \in out) => failedReport = errors

\* C7: a source is removed only with --clean and only when its own call
\* succeeded; the sources of failed and of skipped calls are never removed.
RemovedOnlyAfterOwnSuccess ==
    Ended =>
        /\ ~ArgvIncludes("--clean") => src = srcAtStart
        /\ \A i \in Calls :
              SourceOf(i) \notin src => (ArgvIncludes("--clean") /\ result[i].kind = "ok")
        /\ \A i \in Calls :
              result[i].kind \in {"error", "null"} => SourceOf(i) \in src

\* C8: when all calls have finished, the totals are the sums over the
\* successful results, successCount is their number, and the error list
\* holds the failed results, each once.
TotalsAreSums ==
    AllFinished =>
        /\ totalOriginalSize = SumOver(OkCalls, [i \in OkCalls |-> result[i].originalSize])
        /\ totalConvertedSize = SumOver(OkCalls, [i \in OkCalls |-> result[i].convertedSize])
        /\ successCount = Cardinality(OkCalls)
        /\ Len(errors) = Cardinality(ErrorCalls)
        /\ \A i \in ErrorCalls :
              Cardinality({k \in 1..Len(errors) : errors[k] = ErrorEntry(i)})
                 = Cardinality({j \in ErrorCalls : ErrorEntry(j) = ErrorEntry(i)})

TotalsAreSumsWitness ==
    /\ pc = "exit"
    /\ Cardinality(OkCalls) >= 2
    /\ Cardinality(ErrorCalls) >= 1
    /\ \A i \in Calls : tpc[i] = "done"
    /\ totalConvertedSize > 0

\* C9: every image file under the input root, at any depth, gets exactly
\* one call whose source path is the file's own path, and no other file
\* gets a call.
EnumerationComplete ==
    pc \in {"dispatch", "await"} =>
        /\ \A s \in Eligible :
              Cardinality({i \in Calls : InputPathOf(imageFiles[i]) = s}) = 1
        /\ Len(imageFiles) = Cardinality(Eligible)

\* C10: when the input root is missing at program start, convert reports
\* it and leaves the file system as it was.
MissingRootIsFatal ==
    (Converting /\ rootMissing)
        => (/\ inputFolder \notin dirs
            /\ pc = "exit" => "folder-not-found" \in out)

\* C11: a convert run on an existing input directory that holds no file with
\* an image extension ends with the "no images" line, without a converter
\* call, a success, a written destination or a summary, and without any of
\* the lines written for a missing input directory.
ZeroFileRun ==
    (Converting /\ pc = "exit" /\ ~rootMissing /\ Eligible = {})
        => (/\ "no-images" \in out
            /\ calls = {}
            /\ writers = {}
            /\ successCount = 0
            /\ dst = dstAtStart
            /\ src = srcAtStart
            /\ "summary" \notin out
            /\ "folder-not-found" \notin out
            /\ "created-input-folder" \notin out)

ZeroFileRunWitness ==
    /\ Converting /\ pc = "exit" /\ run = 1 /\ ~rootMissing
    /\ src # {} /\ Eligible = {}
    /\ "no-images" \in out

\* the tenth r of a percent is a nearest one to 100 * num / den
NearestTenth(r, num, den) ==
    LET d == r * den - 1000 * num
    IN  2 * (IF d < 0 THEN -d ELSE d) <= den

\* C12: a summary after at least one success reports the percentage
\* (totalOriginalSize - totalConvertedSize) / totalOriginalSize to one
\* decimal, also when the output is larger than the original; a run without
\* a success computes no percentage.
AggregateRatio ==
    (Converting /\ pc = "exit" /\ "complete" \in out)
        => IF successCount > 0
           THEN /\ totalOriginalSize > 0
                /\ Len(totalCompressionRatio) = 1
                /\ NearestTenth(totalCompressionRatio[1],
                                totalOriginalSize - totalConvertedSize, totalOriginalSize)
           ELSE totalCompressionRatio = <<>>

\* the calls whose convertToWebP or recompressWebP has returned a success
EncodedCalls == {i \in Calls : result[i].kind = "ok" /\ <<i, "copy">> \notin calls}

\* C13: every successful convert or recompress of a source of size S > 0
\* into an output of size T returns savedSpace = S - T and writes the
\* percentage (S - T) / S * 100 to one decimal; with T > S both are negative.
PerFileAccounting ==
    \A i \in EncodedCalls :
        LET S == result[i].originalSize
            T == result[i].convertedSize
        IN  /\ S = FileAt(locals[i].inputPath).size
            /\ S > 0
            /\ result[i].savedSpace = S - T
            /\ Len(savedLine[i]) = 1
            /\ NearestTenth(savedLine[i][1], S - T, S)
            /\ T > S => (result[i].savedSpace < 0 /\ savedLine[i][1] < 0)

PerFileAccountingWitness ==
    /\ pc = "exit"
    /\ \E i \in EncodedCalls : result[i].convertedSize > result[i].originalSize
    /\ \E i \in EncodedCalls : result[i].convertedSize < result[i].originalSize

\* the two characters are the same letter, whatever their case
SameLetter(c, d) ==
    \/ c = d
    \/ \E j \in 1..26 : {c, d} = {UpperCase[j], LowerCase[j]}

\* the string contains the token, in any mix of upper and lower case
Has(s, token) ==
    \E i \in 0..(Len(s) - Len(token)) :
        \A k \in 1..Len(token) : SameLetter(s[i + k], token[k])

HasBannerToken(s) == Has(s, <<"b","a","n","n","e","r">>) \/ Has(s, <<" ","b",".">>)

HasScreenshotToken(s) ==
    \/ Has(s, <<"s","c","r","e","e","n","s","h","o","t">>)
    \/ Has(s, <<"s","c","r","e","e","n">>)
    \/ Has(s, <<" ","s">>)

HasCoverToken(s) == Has(s, <<"c","o","v","e","r">>) \/ Has(s, <<" ","c",".">>)

FolderTypesOf == [banner |-> "banners", screenshot |-> "screenshots", cover |-> "covers"]

Classified == seqPc \in {"convert", "converted", "failed"}

\* C14: every file name gets exactly one bucket, in both variants: Banner
\* when it holds "banner" or " b." in any case; otherwise Screenshot when it
\* holds "screenshot", "screen" or " s"; otherwise Cover, with or without a
\* token of Cover.
ClassifierFirstMatch ==
    Classified =>
        LET name == fileName[1]
            expected == IF HasBannerToken(name) THEN "banner"
                        ELSE IF HasScreenshotToken(name) THEN "screenshot"
                        ELSE "cover"
        IN  /\ bucket = expected
            /\ imageType = FolderTypesOf[expected]

ClassifierFirstMatchWitness ==
    /\ Classified
    /\ HasBannerToken(fileName[1])
    /\ HasScreenshotToken(fileName[1])
    /\ HasCoverToken(fileName[1])
    /\ bucket = "banner"

\* C15: a file name that holds "banner" in any mix of upper and lower case
\* is a Banner, whatever else it holds.
BannerWins ==
    (Classified /\ Has(fileName[1], <<"b","a","n","n","e","r">>))
        => (bucket = "banner" /\ imageType = "banners")

BannerWinsWitness ==
    /\ Classified
    /\ bucket = "banner"
    /\ ~includes(fileName[1], <<"b","a","n","n","e","r">>)
    /\ Has(fileName[1], <<"b","a","n","n","e","r">>)
    /\ HasScreenshotToken(fileName[1])
    /\ ~Has(fileName[1], <<" ","b",".">>)

Resized == seqPc = "converted"

\* C16: the target box of a Cover is 600 by 900 with ratio 2:3, the target
\* box of a Banner and of a Screenshot is 1920 by 1080 with ratio 16:9.
TargetBoxes ==
    Resized =>
        IF bucket = "cover"
        THEN /\ resizing.targetWidth = 600
             /\ resizing.targetHeight = 900
             /\ 3 * resizing.targetRatio.num = 2 * resizing.targetRatio.den
        ELSE /\ bucket \in {"banner", "screenshot"}
             /\ resizing.targetWidth = 1920
             /\ resizing.targetHeight = 1080
             /\ 9 * resizing.targetRatio.num = 16 * resizing.targetRatio.den

TargetBoxesWitness ==
    /\ Resized
    /\ bucket = "screenshot"
    /\ HasCoverToken(fileName[1])
    /\ resizing.targetWidth = 1920

\* the native ratio is more than one tenth away from the target ratio
FarFromTarget ==
    10 * Abs(RatioDifference(metadata, resizing.targetRatio))
        > metadata.height * resizing.targetRatio.den

\* C17: an image whose ratio is more than 0.1 away from the target ratio is
\* cropped to fill the box from its center; any other image, also one that
\* is exactly 0.1 away, is fitted inside the box without enlargement, so an
\* image smaller than the box keeps its dimensions.
FitMode ==
    Resized =>
        IF FarFromTarget
        THEN resizing.fit = "cover" /\ resizing.position = "center"
        ELSE /\ resizing.fit = "inside"
             /\ resizing.withoutEnlargement
             /\ (metadata.width <= resizing.targetWidth
                    /\ metadata.height <= resizing.targetHeight)
                  => (resizing.width = metadata.width /\ resizing.height = metadata.height)

\* the output files this program has written
Written == {p \in DOMAIN dst : dst[p].from # <<>>}

\* the target box of the output folder the path lies in
BoxOfPath(p) ==
    TargetBox(FolderTypesOf[CHOOSE t \in FolderTypes : outputFolders[t] = <<p[1]>>])

\* C18: an output converted from a source that is not WebP lies within the
\* target box of its bucket; an output recompressed or copied from a WebP
\* source has the dimensions of its source.
ConvertResizes ==
    \A p \in Written :
        IF IsWebPFile(dst[p].from)
        THEN /\ dst[p].width = FileAt(dst[p].from).width
             /\ dst[p].height = FileAt(dst[p].from).height
        ELSE /\ dst[p].width <= BoxOfPath(p).targetWidth
             /\ dst[p].height <= BoxOfPath(p).targetHeight

Operations == {"convert", "recompress", "copy"}

\* C19: a call that is not skipped invokes exactly one operation: convert
\* for a source that is not WebP, and for a WebP source copy with
\* --no-recompress and recompress without it; a skipped call invokes none.
\* A successful copy returns its source's size as original and as output
\* size, and saved bytes of zero.
OneOperation ==
    \A i \in Dispatched :
        LET ops == {op \in Operations : <<i, op>> \in calls}
            chosen == IF ~IsWebPFile(locals[i].inputPath) THEN "convert"
                      ELSE IF ArgvIncludes("--no-recompress") THEN "copy"
                      ELSE "recompress"
        IN  IF i \in SkippedCalls
            THEN ops = {}
            ELSE /\ ops = {chosen}
                 /\ (chosen = "copy" /\ result[i].kind = "ok")
                      => /\ result[i].savedSpace = 0
                         /\ result[i].originalSize = result[i].convertedSize
                         /\ result[i].originalSize = FileAt(locals[i].inputPath).size

OneOperationWitness ==
    /\ pc = "exit"
    /\ \E i \in Calls : <<i, "copy">> \in calls /\ result[i].kind = "ok"
    /\ \E i \in Calls : <<i, "convert">> \in calls /\ result[i].kind = "ok"
    /\ SkippedCalls # {}

\* the command line holds a number
NumberGiven == \E k \in 4..Len(argv) : parseInt(argv[k]) # NaN

\* the outputs that convertToWebP or recompressWebP wrote in this run
EncodedOutputs == {p \in Written : dst[p].quality # 0 /\ WritersOf(p) # {}}

\* C20: with --quality N on the command line every output converted or
\* recompressed in the run is encoded at quality N; with no quality on the
\* command line it is encoded at the default quality.
QualityOverride ==
    Converting =>
        /\ \A k \in 1..(Len(argv) - 1) :
              (argv[k] = "--quality" /\ parseInt(argv[k + 1]) # NaN)
                 => \A p \in EncodedOutputs : dst[p].quality = parseInt(argv[k + 1])
        /\ ~NumberGiven => \A p \in EncodedOutputs : dst[p].quality = 80

\* the bucket of a base name, as characters
BucketOf(name) ==
    IF HasBannerToken(name) THEN <<"b","a","n","n","e","r">>
    ELSE IF HasScreenshotToken(name) THEN <<"s","c","r","e","e","n","s","h","o","t">>
    ELSE <<"c","o","v","e","r">>

\* the URL of the claim for the source of a call
UrlFor(i) ==
    LET name == PathBasename(locals[i].inputPath)
    IN  <<"https://cdn.jsdelivr.net/gh/", "yourusername", "/", "gamestory-assets",
          "@", "main", "/">>
            \o BucketOf(name) \o <<"/">> \o PathParseName(<<name>>)
            \o <<".","w","e","b","p">>

\* C21: the URL recorded for a successfully processed file is
\* https://cdn.jsdelivr.net/gh/{owner}/{repo}@{branch}/{bucket}/{filename}
\* with the configured owner, repository and branch, the bucket of the file
\* and its base name with the extension .webp; no other URL is recorded.
UrlFormat ==
    /\ \A i \in OkCalls : \E k \in 1..Len(newUrls) : newUrls[k].url = UrlFor(i)
    /\ \A k \in 1..Len(newUrls) : \E i \in OkCalls : newUrls[k].url = UrlFor(i)

UrlFormatWitness ==
    /\ pc = "exit"
    /\ "new-urls" \in out
    /\ \E k \in 1..Len(newUrls) : newUrls[k].folder = "cover"
    /\ \E k \in 1..Len(newUrls) : newUrls[k].folder = "screenshot"

\* the part of a recorded url behind {owner}/{repo}@{branch}/
UrlPath(url) == SubSeq(url, 8, Len(url))

\* the entry of newUrls that the call pushed
EntryOf(i) ==
    [filename |-> locals[i].nameWithoutExt \o <<".","w","e","b","p">>,
     folder |-> locals[i].folderType,
     url |-> UrlFor(i)]

\* C24: the path of the URL recorded for a successfully processed file is
\* the path, from the repository root, of the output file written for it.
UrlAddressesOutput ==
    \A k \in 1..Len(newUrls) :
        /\ \E i \in OkCalls :
              /\ newUrls[k] = EntryOf(i)
              /\ UrlPath(newUrls[k].url) = PathStr(locals[i].outputPath)
        /\ \E p \in DOMAIN dst : UrlPath(newUrls[k].url) = PathStr(p)

\* the step that runs the git commands
GitStep == gitCommands = <<>> /\ gitCommands' # <<>>

\* C22: the git commands run with --git only, once every call has finished,
\* in the order add, commit, push up to the first that fails; the failure
\* is reported in a status line, and the step leaves the success count, the
\* totals, the output files and the recorded URLs as they are and ends with
\* the completion line.
GitAfterTasks ==
    [][GitStep =>
          /\ ArgvIncludes("--git")
          /\ \A i \in Calls : tpc[i] = "done"
          /\ \E n \in 1..3 : gitCommands' = SubSeq(<<"add", "commit", "push">>, 1, n)
          /\ ("pushed" \in out') # ("failed-to-push" \in out')
          /\ "pushed" \in out' => gitCommands' = <<"add", "commit", "push">>
          /\ "complete" \in out'
          /\ pc' = "exit"
          /\ UNCHANGED <<successCount, totalOriginalSize, totalConvertedSize, dst,
                         newUrls, errors>>]_vars

GitAfterTasksWitness ==
    /\ pc = "exit"
    /\ gitCommands = <<"add", "commit">>
    /\ "failed-to-push" \in out
    /\ "complete" \in out
    /\ successCount > 0
    /\ Len(errors) > 0

\* C23: no status line is written after the log stream has been ended, no
\* write to the ended stream brings the process down, and the log stream
\* has been ended when the run is over.
LogCapturesAll ==
    /\ [](pc # "crashed")
    /\ [](Ended => logStreamEnded)
    /\ [][(logStreamEnded /\ logStreamEnded') => out' = out]_vars

\* C25: when all calls of a convert run have finished, the skipped calls,
\* the successes and the recorded errors add up to the number of eligible
\* files, one URL is recorded per success, and the progress bar has been
\* ticked once per eligible file.
OneOutcomePerFile ==
    (Converting /\ AllFinished)
        => LET eligible == Cardinality(Eligible)
           IN  /\ Cardinality(SkippedCalls) + successCount + Len(errors) = eligible
               /\ Len(newUrls) = successCount
               /\ barTicks = eligible

OneOutcomePerFileWitness ==
    /\ Converting /\ pc = "exit"
    /\ \A i \in Calls : tpc[i] = "done"
    /\ SkippedCalls # {}
    /\ successCount > 0
    /\ Len(errors) > 0
    /\ barTicks = 3

====
